---- MODULE Spec2Model ----
(***************************************************************************)
(* Model of ChatCommands (src/src/stats/chat_commands.py): the persisted   *)
(* tables and the update-required flag, the in-memory tables, update(),    *)
(* preprocess_input() and the command handlers with the metric functions.  *)
(*                                                                         *)
(* Time is in whole hours.  A table is a record [rows, cols]: rows is the  *)
(* sequence of its rows, cols the set of derived columns it carries        *)
(* ('reactions_num', 'period') on top of the persisted ones.               *)
(*                                                                         *)
(* utils.parse_args, utils.filter_by_time_df, filter_by_shifted_time_df,   *)
(* filter_emojis_by_emoji_type, filter_emoji_by_emoji_type, remove_file,   *)
(* check_new_username and the CommandArgs class are called by the source   *)
(* but are not part of it; they are modelled from the specification.      *)
(***************************************************************************)
EXTENDS Integers, Sequences, FiniteSets, TLC

VARIABLES
    disk_chat,        \* CLEANED_CHAT_HISTORY_PATH: persisted chat table
    disk_reactions,   \* REACTIONS_PATH: persisted reactions table
    disk_users,       \* USERS_PATH: persisted users table
    update_required,  \* UPDATE_REQUIRED_PATH exists
    chat_df,          \* self.chat_df
    reactions_df,     \* self.reactions_df
    users_df,         \* self.users_df
    pc,               \* position of the running handler ("idle": none)
    cur,              \* the command being handled (context.args, caller)
    reloaded,         \* tables update() has reloaded in the running call
    out               \* what the handler of the last command did and sent

vars == <<disk_chat, disk_reactions, disk_users, update_required,
          chat_df, reactions_df, users_df, pc, cur, reloaded, out>>

---------------------------------------------------------------------------
(* Bounds and program constants *)

MaxMsgs == 2
MaxReactions == 2
MaxDiskRows == 2

MAX_NICKNAMES_NUM == 5

HoursPerDay == 24

\* number_limit of last_messages
NUMBER_LIMIT == 100

\* the longest text last_messages sends as it is
MAX_TEXT_LENGTH == 4096

\* len("Too much text to display. Lower the number of messages.")
TOO_MUCH_TEXT_LENGTH == 55

\* len(utils.dt_to_str(timestamp)): every timestamp is written in one
\* fixed format, here one of 16 characters
DT_LENGTH == 16

---------------------------------------------------------------------------
(* Data *)

UserIds == {1, 2}

\* Display usernames in groupby (lexicographic) order.
NameOrder == <<"alice", "bob", "carol">>

Usernames == {"alice", "bob"}

\* command_args.user when no user is resolved
None == "<None>"

Times == {12, 30, 60}

\* the clock when a command is handled
Now == CHOOSE t \in Times : \A u \in Times : u <= t

negative_emojis == {"poo"}

Emojis == {"like", "poo"}

Range(s) == {s[i] : i \in DOMAIN s}

NameRank(n) == CHOOSE i \in DOMAIN NameOrder : NameOrder[i] = n

RECURSIVE SortedNames(_)
SortedNames(S) ==
    IF S = {} THEN <<>>
    ELSE LET m == CHOOSE x \in S : \A y \in S : NameRank(x) <= NameRank(y)
         IN  <<m>> \o SortedNames(S \ {m})

\* the order of two sort keys: by the first column they differ in
KeyBefore(a, b) ==
    \E k \in DOMAIN a : a[k] < b[k] /\ \A j \in 1..(k - 1) : a[j] = b[j]

\* row i put into the row numbers sorted so far, after those it does not
\* come before
InsertRow(order, i, keys) ==
    LET later == {j \in DOMAIN order : KeyBefore(keys[i], keys[order[j]])}
        pos == IF later = {} THEN Len(order) + 1
               ELSE CHOOSE j \in later : \A k \in later : j <= k
    IN  SubSeq(order, 1, pos - 1) \o <<i>> \o SubSeq(order, pos, Len(order))

\* sort_values: keys[i] holds the sort columns of row i, each ascending (a
\* descending column is negated); rows of equal key keep their order, as
\* they do in the sort of several columns and in the sort of one column of
\* a frame as short as those checked here.
sort_values(s, keys) ==
    LET f[i \in 0..Len(s)] ==
            IF i = 0 THEN <<>> ELSE InsertRow(f[i - 1], i, keys)
    IN  [k \in DOMAIN s |-> s[f[Len(s)][k]]]

head(s, n) == SubSeq(s, 1, IF Len(s) < n THEN Len(s) ELSE n)

Table(rows) == [rows |-> rows, cols |-> {}]

\* df[col] = ...: the assignment adds the column to the frame it is given.
WithColumn(df, col) == [df EXCEPT !.cols = @ \cup {col}]

\* df[mask]: a new frame with the rows where the mask is true.
Select(df, mask) ==
    LET f[i \in 0..Len(df.rows)] ==
            IF i = 0 THEN <<>>
            ELSE IF mask[i] THEN Append(f[i - 1], df.rows[i]) ELSE f[i - 1]
    IN  [df EXCEPT !.rows = f[Len(df.rows)]]

\* groupby(col).size().reset_index(name=...): one row per key that occurs
\* (so every count is at least 1), keys ascending.
groupby_size(rows, col) ==
    LET keys == SortedNames({rows[i][col] : i \in DOMAIN rows})
    IN  [k \in DOMAIN keys |->
            [key |-> keys[k],
             count |-> Cardinality({i \in DOMAIN rows : rows[i][col] = keys[k]})]]

RECURSIVE SetToSeq(_)
SetToSeq(S) ==
    IF S = {} THEN <<>>
    ELSE LET m == CHOOSE x \in S : TRUE IN <<m>> \o SetToSeq(S \ {m})

\* timestamp.dt.to_period('D')
Period(ts) == ts \div HoursPerDay

\* the group key of a row under groupby(['period', col])
PeriodKey(r, col) == <<Period(r.timestamp), r[col]>>

\* groupby(['period', col]).size().reset_index(name=...): one row per key
\* that occurs, keys ascending
groupby_period_size(rows, col) ==
    LET found == SetToSeq({PeriodKey(rows[i], col) : i \in DOMAIN rows})
        keys == sort_values(found,
                    [k \in DOMAIN found |-> <<found[k][1], NameRank(found[k][2])>>])
    IN  [k \in DOMAIN keys |->
            [key |-> keys[k],
             count |-> Cardinality({i \in DOMAIN rows :
                                      PeriodKey(rows[i], col) = keys[k]})]]

\* how='left' followed by fillna(0): every left row, 0 where nothing matches
merge_left(left, right) ==
    [i \in DOMAIN left |->
        [key |-> left[i].key,
         left_count |-> left[i].count,
         right_count |->
            IF \E r \in Range(right) : r.key = left[i].key
            THEN (CHOOSE r \in Range(right) : r.key = left[i].key).count
            ELSE 0]]

\* left.merge(right, how='inner') on the key: the left rows that have a
\* match, in the left order, with the right count beside the left count.
merge_inner(left, right) ==
    LET hit(l) == \E j \in DOMAIN right : right[j].key = l.key
        kept == SelectSeq(left, hit)
    IN  [i \in DOMAIN kept |->
            [key |-> kept[i].key,
             left_count |-> kept[i].count,
             right_count |-> (CHOOSE r \in Range(right) : r.key = kept[i].key).count]]

Abs(x) == IF x < 0 THEN -x ELSE x

\* n / d rounded half-to-even to an integer, n >= 0, d > 0
RoundHalfEven(n, d) ==
    LET q == n \div d
        r == n % d
    IN  IF 2 * r > d THEN q + 1
        ELSE IF 2 * r < d THEN q
        ELSE IF q % 2 = 0 THEN q ELSE q + 1

\* (n / d).round(2) of a pandas column, in hundredths.  A zero denominator
\* gives inf or NaN, not a fault.
RatioValue(n, d) ==
    IF d = 0 THEN [kind |-> IF n = 0 THEN "nan" ELSE "inf", v |-> 0]
    ELSE [kind |-> "num", v |-> RoundHalfEven(100 * n, d)]

---------------------------------------------------------------------------
(* Argument resolution (CommandArgs, utils.parse_args) *)

\* tokens that parse as a positive integer, with their value
IntTokens == ("36" :> 36) @@ ("2" :> 2) @@ ("101" :> 101)

\* len() of the free-text arguments, usernames and message texts the
\* model uses
StrLen ==
    ("nick" :> 4) @@ ("x" :> 1) @@ ("carol" :> 5) @@ ("bob" :> 3) @@ ("" :> 0)
    @@ ("alice" :> 5) @@ ("hi" :> 2) @@ ("t" :> 1)
    @@ ("essay" :> 4047) @@ ("essay!" :> 4048)

\* len(str(n)) of a number below 1000
DecLen(n) == IF n < 10 THEN 1 ELSE IF n < 100 THEN 2 ELSE 3

NoNumber == 0 - 1

\* CommandArgs as constructed: nothing resolved yet
CommandArgs ==
    [error |-> "", user |-> None, period_mode |-> "total", period_time |-> -1,
     number |-> NoNumber, string |-> ""]

final_usernames(users) == {users[u].final_username : u \in DOMAIN users}

\* expected_args of the command
ExpectedArgs(cmd) ==
    CASE cmd \in {"fun", "wholesome"} -> <<"PERIOD">>
      [] cmd = "last_messages" -> <<"USER", "NUMBER">>
      [] cmd \in {"add_nickname", "set_username"} -> <<"STRING">>
      [] OTHER -> <<"USER", "PERIOD">>

\* one argument kind resolved into the request; a request that already
\* carries an error is left as it is (the first failing kind ends resolution)
ResolveKind(users, req, args, kind) ==
    IF args.error # "" THEN args
    ELSE CASE kind = "USER" ->
                IF req.user = "" THEN args
                ELSE IF req.user \in final_usernames(users)
                     THEN [args EXCEPT !.user = req.user]
                     ELSE [args EXCEPT !.error = "no such user"]
           [] kind = "PERIOD" ->
                IF req.period = "" THEN args
                ELSE IF req.period = "total" THEN [args EXCEPT !.period_mode = "total"]
                ELSE IF req.period \in DOMAIN IntTokens
                     THEN [args EXCEPT !.period_mode = "hours",
                                       !.period_time = IntTokens[req.period]]
                     ELSE [args EXCEPT !.error = "no such command mode"]
           [] kind = "NUMBER" ->
                IF req.number \in DOMAIN IntTokens /\ IntTokens[req.number] <= NUMBER_LIMIT
                THEN [args EXCEPT !.number = IntTokens[req.number]]
                ELSE [args EXCEPT !.error = "number out of bounds"]
           [] kind = "STRING" ->
                IF StrLen[req.string] < 3 \/ StrLen[req.string] > 20
                THEN [args EXCEPT !.error = "text length out of bounds"]
                ELSE [args EXCEPT !.string = req.string]

parse_args(users, req) ==
    LET kinds == ExpectedArgs(req.cmd)
        f[i \in 0..Len(kinds)] ==
            IF i = 0 THEN CommandArgs ELSE ResolveKind(users, req, f[i - 1], kinds[i])
    IN  f[Len(kinds)]

---------------------------------------------------------------------------
(* Time window filter (utils.filter_by_time_df, filter_by_shifted_time_df) *)

InWindow(ts, args) ==
    \/ args.period_mode = "total"
    \/ args.period_mode = "hours" /\ ts >= Now - args.period_time

\* a new frame with the rows of the requested period
filter_by_time_df(df, args) ==
    Select(df, [i \in DOMAIN df.rows |-> InWindow(df.rows[i].timestamp, args)])

\* the window of equal length just before the requested one.  Nothing
\* says what precedes TOTAL: shift_total picks between no row and every row.
InShiftedWindow(ts, args, shift_total) ==
    \/ args.period_mode = "total" /\ shift_total = "all"
    \/ /\ args.period_mode = "hours"
       /\ ts >= Now - 2 * args.period_time
       /\ ts < Now - args.period_time

filter_by_shifted_time_df(df, args, shift_total) ==
    Select(df, [i \in DOMAIN df.rows |->
                   InShiftedWindow(df.rows[i].timestamp, args, shift_total)])

EmojiOfType(e, emoji_type) ==
    CASE emoji_type = "all" -> TRUE
      [] emoji_type = "negative" -> e \in negative_emojis
      [] emoji_type = "positive" -> e \notin negative_emojis

\* keeps, in every row's emoji list, the emojis of the type
filter_emojis_by_emoji_type(df, emoji_type) ==
    LET keep(e) == EmojiOfType(e, emoji_type)
    IN  [rows |-> [i \in DOMAIN df.rows |->
                     [df.rows[i] EXCEPT !.reaction_emojis = SelectSeq(@, keep)]],
         cols |-> df.cols]

\* keeps the reaction rows whose emoji is of the type
filter_emoji_by_emoji_type(df, emoji_type) ==
    Select(df, [i \in DOMAIN df.rows |-> EmojiOfType(df.rows[i].emoji, emoji_type)])

---------------------------------------------------------------------------
(* preprocess_input, after its call of update() *)

\* sort_values(['reactions_num', 'timestamp'], ascending=[False, True])
ReactionsThenTime(rows) ==
    [i \in DOMAIN rows |-> <<0 - Len(rows[i].reaction_emojis), rows[i].timestamp>>]

\* shared: the frames handed back are self.chat_df and self.reactions_df
\* themselves, not copies.
preprocess_args(chat, reactions, args, emoji_type) ==
    LET by_user(df) == [i \in DOMAIN df.rows |-> df.rows[i].final_username = args.user]
        t1 == filter_by_time_df(chat, args)
        fr == filter_by_time_df(reactions, args)
        t2 == filter_emojis_by_emoji_type(t1, emoji_type)
        t3 == WithColumn(t2, "reactions_num")
        t4 == [t3 EXCEPT !.rows = sort_values(@, ReactionsThenTime(@))]
        t5 == IF args.user # None THEN Select(t4, by_user(t4)) ELSE t4
    IN  IF args.error # ""
        THEN [chat |-> chat, reactions |-> reactions, args |-> args,
              shared |-> TRUE, ops |-> <<"parse_args">>]
        ELSE [chat |-> t5, reactions |-> fr, args |-> args, shared |-> FALSE,
              ops |-> <<"parse_args", "filter_by_time", "filter_by_time",
                        "filter_emojis", "sort">>
                      \o (IF args.user # None THEN <<"filter_rows">> ELSE <<>>)]

preprocess_input(chat, reactions, users, req, emoji_type) ==
    preprocess_args(chat, reactions, parse_args(users, req), emoji_type)

\* handle_args_error: sends the error text, when there is one, and returns
\* to the handler.
handle_args_error(args) == IF args.error # "" THEN <<"send_error">> ELSE <<>>

---------------------------------------------------------------------------
(* Metric functions *)

\* the rows of calculate_fun_metric that reach the ratio step:
\* reactions_received_counts inner-joined with message_counts
fun_merged(chat, reactions) ==
    LET positive(c) == c.count > 0
        reactions_received_counts == groupby_size(reactions.rows, "reacted_to_username")
        message_counts == SelectSeq(groupby_size(chat.rows, "final_username"), positive)
        m == merge_inner(reactions_received_counts, message_counts)
    IN  [i \in DOMAIN m |->
            [final_username |-> m[i].key,
             reaction_count |-> m[i].left_count,
             message_count |-> m[i].right_count]]

\* the sort columns of a ratio, ascending or descending: NaN comes last
\* either way, inf beyond every number
RatioKey(ratio, ascending) ==
    CASE ratio.kind = "nan" -> <<2, 0>>
      [] ratio.kind = "inf" -> IF ascending THEN <<1, 0>> ELSE <<0, 0>>
      [] ratio.kind = "num" -> IF ascending THEN <<0, ratio.v>> ELSE <<1, 0 - ratio.v>>

\* sort_values('ratio', ascending=False)
RatioDescending(rows) == [i \in DOMAIN rows |-> RatioKey(rows[i].ratio, FALSE)]

\* sort_values('ratio', ascending=True)
RatioAscending(rows) == [i \in DOMAIN rows |-> RatioKey(rows[i].ratio, TRUE)]

fun_ratio(row) == RatioValue(row.reaction_count, row.message_count)

calculate_fun_metric(chat, reactions) ==
    LET m == fun_merged(chat, reactions)
        rows == [i \in DOMAIN m |->
                    [final_username |-> m[i].final_username, ratio |-> fun_ratio(m[i])]]
    IN  sort_values(rows, RatioDescending(rows))

\* the rows of calculate_wholesome_metric that reach the ratio step
wholesome_merged(reactions) ==
    LET positive(c) == c.count > 0
        reactions_received_counts ==
            SelectSeq(groupby_size(reactions.rows, "reacted_to_username"), positive)
        reactions_given_counts == groupby_size(reactions.rows, "reacting_username")
        m == merge_inner(reactions_received_counts, reactions_given_counts)
    IN  [i \in DOMAIN m |->
            [reacting_username |-> m[i].key,
             reactions_received_count |-> m[i].left_count,
             reactions_given_count |-> m[i].right_count]]

wholesome_ratio(row) == RatioValue(row.reactions_given_count, row.reactions_received_count)

calculate_wholesome_metric(reactions) ==
    LET m == wholesome_merged(reactions)
        rows == [i \in DOMAIN m |->
                    [reacting_username |-> m[i].reacting_username,
                     ratio |-> wholesome_ratio(m[i])]]
    IN  sort_values(rows, RatioDescending(rows))

\* the rows of calculate_fun_metric_periodized that reach the ratio step
periodized_merged(chat, reactions) ==
    LET message_counts == groupby_period_size(chat.rows, "final_username")
        reaction_counts == groupby_period_size(reactions.rows, "reacted_to_username")
        m == merge_inner(message_counts, reaction_counts)
    IN  [i \in DOMAIN m |->
            [period |-> m[i].key[1], final_username |-> m[i].key[2],
             message_count |-> m[i].left_count,
             reaction_count |-> m[i].right_count]]

\* sort_values(['period', 'ratio'], ascending=[True, False])
PeriodThenRatio(rows) ==
    [i \in DOMAIN rows |-> <<rows[i].period>> \o RatioKey(rows[i].ratio, FALSE)]

calculate_fun_metric_periodized(chat, reactions) ==
    LET m == periodized_merged(chat, reactions)
        rows == [i \in DOMAIN m |->
                    [period |-> m[i].period, final_username |-> m[i].final_username,
                     ratio |-> RatioValue(m[i].reaction_count, m[i].message_count)]]
    IN  sort_values(rows, PeriodThenRatio(rows))

\* round((current - baseline) / baseline * 100, 1) in tenths of a percent,
\* 0 when the baseline is empty
count_change(current, baseline) ==
    IF baseline = 0 THEN 0
    ELSE LET n == 1000 * (current - baseline)
         IN  IF n >= 0 THEN RoundHalfEven(n, baseline)
             ELSE 0 - RoundHalfEven(0 - n, baseline)

\* '+' also in front of a zero change
count_change_text_plus_on_zero(change) ==
    [plus |-> change >= 0, value |-> change]

\* f'+{change}%' if change > 0 else f'{change}%'
count_change_text(change) ==
    [plus |-> change > 0, value |-> change]

---------------------------------------------------------------------------
(* Command handlers.  A handler is given the command and the in-memory and *)
(* persisted state it runs on, and yields what it leaves behind: the       *)
(* operations it performed in order (ops), the shared tables, the users    *)
(* table in memory and on disk, and what it computed for its reply.        *)

NoReply ==
    [fun_rows |-> <<>>, fun_metric |-> <<>>,
     wholesome_rows |-> <<>>, wholesome_metric |-> <<>>, unwholesome |-> <<>>,
     periodized_rows |-> <<>>, periodized |-> <<>>,
     messages |-> 0, reactions |-> 0, shifted_messages |-> 0, shifted_reactions |-> 0,
     message_count_change |-> 0, reaction_count_change |-> 0,
     message_count_change_text |-> count_change_text(0),
     reaction_count_change_text |-> count_change_text(0),
     images_num |-> 0, message_counts |-> <<>>,
     reactions_received_counts |-> <<>>, reactions_given_counts |-> <<>>,
     listing |-> <<>>, text |-> [kind |-> "none", len |-> 0]]

Done(req, args, ops, C, R, U, D, reply) ==
    [cmd |-> req.cmd, caller |-> req.caller, req |-> req, args |-> args, ops |-> ops,
     chat_df |-> C, reactions_df |-> R, users_df |-> U, disk_users |-> D,
     reply |-> reply]

\* sort_values('count', ascending=False)
CountDescending(rows) == [i \in DOMAIN rows |-> <<0 - rows[i].count>>]

\* chat_df['text'] != ''
HasText(df) == [i \in DOMAIN df.rows |-> df.rows[i].text # ""]

\* the counts of a column's values, largest first
value_counts(rows, col) ==
    LET counts == groupby_size(rows, col)
    IN  sort_values(counts, CountDescending(counts))

\* summary once preprocess_input has returned p
summary_body(req, p, C, R, U, D) ==
    LET chat == p.chat
        reactions == p.reactions
        shifted_chat_df == filter_by_shifted_time_df(C, p.args, req.shift_total)
        shifted_reactions_df == filter_by_shifted_time_df(R, p.args, req.shift_total)
        is_image(r) == r.message_type = "image"
        message_count_change ==
            count_change(Len(chat.rows), Len(shifted_chat_df.rows))
        reaction_count_change ==
            count_change(Len(reactions.rows), Len(shifted_reactions_df.rows))
        wholesome == calculate_wholesome_metric(reactions)
        reply ==
            [NoReply EXCEPT
                !.fun_rows = fun_merged(chat, reactions),
                !.fun_metric = calculate_fun_metric(chat, reactions),
                !.wholesome_rows = wholesome_merged(reactions),
                !.wholesome_metric = wholesome,
                !.unwholesome = sort_values(wholesome, RatioAscending(wholesome)),
                !.messages = Len(chat.rows),
                !.reactions = Len(reactions.rows),
                !.shifted_messages = Len(shifted_chat_df.rows),
                !.shifted_reactions = Len(shifted_reactions_df.rows),
                !.message_count_change = message_count_change,
                !.reaction_count_change = reaction_count_change,
                !.message_count_change_text = count_change_text(message_count_change),
                !.reaction_count_change_text = count_change_text(reaction_count_change),
                !.images_num = Len(SelectSeq(chat.rows, is_image)),
                !.message_counts = value_counts(chat.rows, "final_username"),
                !.reactions_received_counts =
                    value_counts(reactions.rows, "reacted_to_username"),
                !.reactions_given_counts =
                    value_counts(reactions.rows, "reacting_username"),
                !.listing = head(Select(chat, HasText(chat)).rows, 1)]
    IN  Done(req, p.args,
             p.ops \o <<"filter_by_shifted_time", "filter_by_shifted_time">>
                   \o handle_args_error(p.args)
                   \o <<"filter_emoji", "filter_rows", "aggregate", "send_reply">>,
             C, R, U, D, reply)

summary(req, C, R, U, D) ==
    summary_body(req, preprocess_input(C, R, U, req, "all"), C, R, U, D)

\* the rows the listing loop writes: it stops at the first row without
\* reactions
RECURSIVE WhileReacted(_)
WhileReacted(rows) ==
    IF rows = <<>> \/ Len(Head(rows).reaction_emojis) = 0 THEN <<>>
    ELSE <<Head(rows)>> \o WhileReacted(Tail(rows))

\* row['reactions_num'] and sort_values(['reactions_num', ...]) raise
\* KeyError on a frame without the derived column.
\* messages_by_reactions once preprocess_input has returned p
messages_by_reactions_body(req, p, C, R, U, D) ==
    LET chat == Select(p.chat, HasText(p.chat))
        top == head(chat.rows, 5)
        faults == "reactions_num" \notin chat.cols /\ top # <<>>
    IN  Done(req, p.args,
             p.ops \o handle_args_error(p.args) \o <<"filter_rows">>
                   \o (IF faults THEN <<"fault">> ELSE <<"send_reply">>),
             C, R, U, D,
             [NoReply EXCEPT !.listing = IF faults THEN <<>> ELSE WhileReacted(top)])

messages_by_reactions(req, C, R, U, D) ==
    messages_by_reactions_body(req, preprocess_input(C, R, U, req, req.emoji_type), C, R, U, D)

\* send_message: a video note is sent as the note and then its text
SendMedia(rows) ==
    LET f[i \in 0..Len(rows)] ==
            IF i = 0 THEN <<>>
            ELSE f[i - 1] \o (IF rows[i].message_type = "video_note"
                              THEN <<"send_media", "send_reply">>
                              ELSE <<"send_media">>)
    IN  f[Len(rows)]

\* media_by_reactions once preprocess_input has returned p
media_by_reactions_body(req, p, C, R, U, D) ==
    LET of_type(r) ==
            IF req.message_type = "video"
            THEN r.message_type \in {"video", "video_note"}
            ELSE r.message_type = req.message_type
        chat == Select(p.chat, [i \in DOMAIN p.chat.rows |-> of_type(p.chat.rows[i])])
        faults == "reactions_num" \notin chat.cols
        top == head(sort_values(chat.rows, ReactionsThenTime(chat.rows)), 5)
    IN  Done(req, p.args,
             p.ops \o handle_args_error(p.args) \o <<"send_reply", "filter_rows">>
                   \o (IF faults THEN <<"fault">> ELSE <<"sort">> \o SendMedia(top)),
             C, R, U, D,
             [NoReply EXCEPT !.listing = IF faults THEN <<>> ELSE top])

media_by_reactions(req, C, R, U, D) ==
    media_by_reactions_body(req, preprocess_input(C, R, U, req, req.emoji_type), C, R, U, D)

\* sort_values(by='timestamp', ascending=False)
NewestFirst(rows) == [i \in DOMAIN rows |-> <<0 - rows[i].timestamp>>]

\* len(text) once the loop of last_messages has written the rows: the
\* heading "Last {number} messages", then " by {user}" or ":", then for
\* every row "\n{i}.", the username when no user is named, " [{time}]:"
\* and " {text} [{emojis}]" (an emoji counts as one character)
listing_text_length(args, rows) ==
    LET named == args.user # None
        f[i \in 0..Len(rows)] ==
            IF i = 0 THEN 0
            ELSE f[i - 1]
                 + 2 + DecLen(i)
                 + (IF named THEN 0 ELSE 1 + StrLen[rows[i].final_username])
                 + 4 + DT_LENGTH
                 + 4 + StrLen[rows[i].text] + Len(rows[i].reaction_emojis)
    IN  5 + (IF args.number = NoNumber THEN 4 ELSE DecLen(args.number)) + 9
        + (IF named THEN 4 + StrLen[args.user] ELSE 1)
        + f[Len(rows)]

\* the listing replaced already when it is exactly MAX_TEXT_LENGTH long
last_messages_text_limit_inclusive(length) ==
    IF length >= MAX_TEXT_LENGTH
    THEN [kind |-> "too_much", len |-> TOO_MUCH_TEXT_LENGTH]
    ELSE [kind |-> "listing", len |-> length]

\* if len(text) > 4096: text = "Too much text to display. ..."
last_messages_text(length) ==
    IF length > MAX_TEXT_LENGTH
    THEN [kind |-> "too_much", len |-> TOO_MUCH_TEXT_LENGTH]
    ELSE [kind |-> "listing", len |-> length]

\* head(None) is the whole frame
\* last_messages once preprocess_input has returned p
last_messages_body(req, p, C, R, U, D) ==
    LET rows == sort_values(p.chat.rows, NewestFirst(p.chat.rows))
        shown == IF p.args.number = NoNumber THEN rows ELSE head(rows, p.args.number)
    IN  Done(req, p.args,
             p.ops \o <<"sort">> \o handle_args_error(p.args) \o <<"send_reply">>,
             C, R, U, D,
             [NoReply EXCEPT
                 !.listing = shown,
                 !.text = last_messages_text(listing_text_length(p.args, shown))])

last_messages(req, C, R, U, D) ==
    last_messages_body(req, preprocess_input(C, R, U, req, "all"), C, R, U, D)

display_users(req, C, R, U, D) ==
    Done(req, CommandArgs, <<"read_users", "send_reply">>, C, R, U, D, NoReply)

\* the limit test with > in place of >=
add_nickname_limit_off_by_one(req, C, R, U, D) ==
    LET args == parse_args(U, req)
        user_id == req.caller
        current_nicknames == U[user_id].nicknames
        users == [U EXCEPT ![user_id].nicknames = current_nicknames \o <<args.string>>]
        ops == <<"parse_args">> \o handle_args_error(args) \o <<"read_users">>
    IN  IF Len(current_nicknames) > MAX_NICKNAMES_NUM
        THEN Done(req, args, ops \o <<"send_limit_error">>, C, R, U, D, NoReply)
        ELSE Done(req, args, ops \o <<"save_df", "send_reply">>, C, R, users, users, NoReply)

add_nickname(req, C, R, U, D) ==
    LET args == parse_args(U, req)
        user_id == req.caller
        current_nicknames == U[user_id].nicknames
        new_nickname == args.string
        users == [U EXCEPT ![user_id].nicknames =
                     IF Len(current_nicknames) = 0 THEN <<new_nickname>>
                     ELSE current_nicknames \o <<new_nickname>>]
        ops == <<"parse_args">> \o handle_args_error(args) \o <<"read_users">>
    IN  IF Len(current_nicknames) >= MAX_NICKNAMES_NUM
        THEN Done(req, args, ops \o <<"send_limit_error">>, C, R, U, D, NoReply)
        ELSE Done(req, args, ops \o <<"save_df", "send_reply">>, C, R, users, users, NoReply)

\* a username is accepted when no user carries it
check_new_username(users, new_username) ==
    new_username \notin final_usernames(users)

set_username(req, C, R, U, D) ==
    LET args == parse_args(U, req)
        user_id == req.caller
        new_username == args.string
        users == [U EXCEPT ![user_id].final_username = new_username]
        ops == <<"parse_args">> \o handle_args_error(args) \o <<"read_users">>
    IN  IF ~check_new_username(U, new_username)
        THEN Done(req, args, ops \o <<"send_invalid_username">>, C, R, U, D, NoReply)
        ELSE Done(req, args, ops \o <<"save_df", "send_reply">>, C, R, users, users, NoReply)

\* fun once preprocess_input has returned p
fun_body(req, p, C, R, U, D) ==
    Done(req, p.args,
         <<"parse_args">> \o p.ops \o handle_args_error(p.args)
             \o <<"aggregate", "send_reply">>,
         C, R, U, D,
         [NoReply EXCEPT !.fun_rows = fun_merged(p.chat, p.reactions),
                         !.fun_metric = calculate_fun_metric(p.chat, p.reactions)])

fun(req, C, R, U, D) ==
    fun_body(req, preprocess_input(C, R, U, req, "all"), C, R, U, D)

\* wholesome once preprocess_input has returned p
wholesome_body(req, p, C, R, U, D) ==
    Done(req, p.args,
         <<"parse_args">> \o p.ops \o handle_args_error(p.args)
             \o <<"aggregate", "send_reply">>,
         C, R, U, D,
         [NoReply EXCEPT !.wholesome_rows = wholesome_merged(p.reactions),
                         !.wholesome_metric = calculate_wholesome_metric(p.reactions)])

wholesome(req, C, R, U, D) ==
    wholesome_body(req, preprocess_input(C, R, U, req, "all"), C, R, U, D)

\* users = self.users_df['final_username'].unique() when no user is named
ReadUsers(args) == IF args.user = None THEN <<"read_users">> ELSE <<>>

\* the chart handlers write the 'period' column into the frames
\* preprocess_input handed them: the shared tables when p.shared
\* funchart once preprocess_input has returned p
funchart_body(req, p, C, R, U, D) ==
    LET chat == WithColumn(p.chat, "period")
        reactions == WithColumn(p.reactions, "period")
    IN  Done(req, p.args,
             p.ops \o handle_args_error(p.args) \o ReadUsers(p.args)
                   \o <<"aggregate", "plot", "send_media">>,
             IF p.shared THEN chat ELSE C, IF p.shared THEN reactions ELSE R, U, D,
             [NoReply EXCEPT
                 !.periodized_rows = periodized_merged(chat, reactions),
                 !.periodized = calculate_fun_metric_periodized(chat, reactions)])

funchart(req, C, R, U, D) ==
    funchart_body(req, preprocess_input(C, R, U, req, "all"), C, R, U, D)

\* spamchart once preprocess_input has returned p
spamchart_body(req, p, C, R, U, D) ==
    LET chat == WithColumn(p.chat, "period")
    IN  Done(req, p.args,
             p.ops \o handle_args_error(p.args) \o ReadUsers(p.args)
                   \o <<"aggregate", "plot", "send_media">>,
             IF p.shared THEN chat ELSE C, R, U, D,
             [NoReply EXCEPT !.message_counts =
                 groupby_period_size(chat.rows, "final_username")])

spamchart(req, C, R, U, D) ==
    spamchart_body(req, preprocess_input(C, R, U, req, "all"), C, R, U, D)

\* likechart once preprocess_input has returned p
likechart_body(req, p, C, R, U, D) ==
    LET reactions == WithColumn(p.reactions, "period")
    IN  Done(req, p.args,
             p.ops \o handle_args_error(p.args) \o ReadUsers(p.args)
                   \o <<"aggregate", "plot", "send_media">>,
             C, IF p.shared THEN reactions ELSE R, U, D,
             [NoReply EXCEPT !.reactions_received_counts =
                 groupby_period_size(reactions.rows, "reacted_to_username")])

likechart(req, C, R, U, D) ==
    likechart_body(req, preprocess_input(C, R, U, req, "all"), C, R, U, D)

---------------------------------------------------------------------------
(* Commands and table rows the model draws from *)

Req(cmd) ==
    [cmd |-> cmd, caller |-> 1, user |-> "", period |-> "", number |-> "",
     string |-> "", emoji_type |-> "all", message_type |-> "image",
     shift_total |-> "none"]

NoRequest == Req("none")

NoOut ==
    [cmd |-> "none", caller |-> 0, req |-> NoRequest, args |-> CommandArgs,
     ops |-> <<>>, reply |-> NoReply]

Msg(id, user, ts, type, text, emojis) ==
    [message_id |-> id, final_username |-> user, timestamp |-> ts,
     message_type |-> type, text |-> text, reaction_emojis |-> emojis]

Reaction(from, to, emoji, ts) ==
    [reacting_username |-> from, reacted_to_username |-> to, emoji |-> emoji,
     timestamp |-> ts]

User(name, nicknames) == [final_username |-> name, nicknames |-> nicknames]

StatsCommands ==
    {"summary", "messages_by_reactions", "media_by_reactions", "last_messages",
     "fun", "wholesome", "funchart", "spamchart", "likechart"}

---------------------------------------------------------------------------
(* update(), one step per statement that touches storage *)

\* preprocess_input enters update(): os.path.isfile(UPDATE_REQUIRED_PATH)
UpdateCheck(req) ==
    /\ pc = "idle"
    /\ req.cmd \in StatsCommands
    /\ cur' = req
    /\ reloaded' = {}
    /\ out' = NoOut
    /\ pc' = IF update_required THEN "upd_chat" ELSE "body"
    /\ UNCHANGED <<disk_chat, disk_reactions, disk_users, update_required,
                   chat_df, reactions_df, users_df>>

\* the flag removed before the tables are read
UpdateChatClearsFlag ==
    /\ pc = "upd_chat"
    /\ chat_df' = disk_chat
    /\ update_required' = FALSE
    /\ reloaded' = reloaded \cup {"chat"}
    /\ pc' = "upd_reactions"
    /\ UNCHANGED <<disk_chat, disk_reactions, disk_users,
                   reactions_df, users_df, cur, out>>

UpdateChat ==
    /\ pc = "upd_chat"
    /\ chat_df' = disk_chat
    /\ reloaded' = reloaded \cup {"chat"}
    /\ pc' = "upd_reactions"
    /\ UNCHANGED <<disk_chat, disk_reactions, disk_users, update_required,
                   reactions_df, users_df, cur, out>>

UpdateReactions ==
    /\ pc = "upd_reactions"
    /\ reactions_df' = disk_reactions
    /\ reloaded' = reloaded \cup {"reactions"}
    /\ pc' = "upd_users"
    /\ UNCHANGED <<disk_chat, disk_reactions, disk_users, update_required,
                   chat_df, users_df, cur, out>>

UpdateUsers ==
    /\ pc = "upd_users"
    /\ users_df' = disk_users
    /\ reloaded' = reloaded \cup {"users"}
    /\ pc' = "upd_remove"
    /\ UNCHANGED <<disk_chat, disk_reactions, disk_users, update_required,
                   chat_df, reactions_df, cur, out>>

\* utils.remove_file(UPDATE_REQUIRED_PATH)
UpdateRemove ==
    /\ pc = "upd_remove"
    /\ update_required' = FALSE
    /\ pc' = "body"
    /\ UNCHANGED <<disk_chat, disk_reactions, disk_users,
                   chat_df, reactions_df, users_df, cur, reloaded, out>>

---------------------------------------------------------------------------
(* The handlers *)

Apply(r) ==
    /\ chat_df' = r.chat_df
    /\ reactions_df' = r.reactions_df
    /\ users_df' = r.users_df
    /\ disk_users' = r.disk_users
    /\ out' = [cmd |-> r.cmd, caller |-> r.caller, req |-> r.req, args |-> r.args,
               ops |-> r.ops, reply |-> r.reply]
    /\ pc' = "idle"
    /\ cur' = NoRequest
    /\ reloaded' = {}
    /\ UNCHANGED <<disk_chat, disk_reactions, update_required>>

\* the rest of a statistics handler, from parse_args on: r is what the
\* handler of the command leaves
Finish(cmd, r) ==
    /\ pc = "body"
    /\ cur.cmd = cmd
    /\ Apply(r)

Summary ==
    Finish("summary", summary(cur, chat_df, reactions_df, users_df, disk_users))

MessagesByReactions ==
    Finish("messages_by_reactions", messages_by_reactions(cur, chat_df, reactions_df, users_df, disk_users))

MediaByReactions ==
    Finish("media_by_reactions", media_by_reactions(cur, chat_df, reactions_df, users_df, disk_users))

LastMessages ==
    Finish("last_messages", last_messages(cur, chat_df, reactions_df, users_df, disk_users))

Fun ==
    Finish("fun", fun(cur, chat_df, reactions_df, users_df, disk_users))

Wholesome ==
    Finish("wholesome", wholesome(cur, chat_df, reactions_df, users_df, disk_users))

Funchart ==
    Finish("funchart", funchart(cur, chat_df, reactions_df, users_df, disk_users))

Spamchart ==
    Finish("spamchart", spamchart(cur, chat_df, reactions_df, users_df, disk_users))

Likechart ==
    Finish("likechart", likechart(cur, chat_df, reactions_df, users_df, disk_users))


\* the handlers that do not go through preprocess_input
Direct(req, cmd, r) ==
    /\ pc = "idle"
    /\ req.cmd = cmd
    /\ Apply(r)

AddNickname(req) ==
    Direct(req, "add_nickname", add_nickname(req, chat_df, reactions_df, users_df, disk_users))

SetUsername(req) ==
    Direct(req, "set_username", set_username(req, chat_df, reactions_df, users_df, disk_users))

DisplayUsers(req) ==
    Direct(req, "display_users", display_users(req, chat_df, reactions_df, users_df, disk_users))


---------------------------------------------------------------------------
(* The ingestion collaborator: writes a table and raises the flag *)

IngestMessage(row) ==
    /\ Len(disk_chat.rows) < MaxDiskRows
    /\ disk_chat' = [disk_chat EXCEPT !.rows =
                        Append(@, [row EXCEPT !.message_id = Len(disk_chat.rows) + 1])]
    /\ update_required' = TRUE
    /\ UNCHANGED <<disk_reactions, disk_users, chat_df, reactions_df, users_df,
                   pc, cur, reloaded, out>>

IngestReaction(row) ==
    /\ Len(disk_reactions.rows) < MaxDiskRows
    /\ disk_reactions' = [disk_reactions EXCEPT !.rows = Append(@, row)]
    /\ update_required' = TRUE
    /\ UNCHANGED <<disk_chat, disk_users, chat_df, reactions_df, users_df,
                   pc, cur, reloaded, out>>

IngestUsername(user_id, name) ==
    /\ name \notin final_usernames(disk_users)
    /\ disk_users' = [disk_users EXCEPT ![user_id].final_username = name]
    /\ update_required' = TRUE
    /\ UNCHANGED <<disk_chat, disk_reactions, chat_df, reactions_df, users_df,
                   pc, cur, reloaded, out>>

---------------------------------------------------------------------------
(* Spec: storage, the update signal and the users table *)

Nicknames(n) == [i \in 1..n |-> "nick"]

InitUsers ==
    (1 :> User("alice", Nicknames(MAX_NICKNAMES_NUM - 1)))
    @@ (2 :> User("bob", <<>>))

InitChat == Table(<<Msg(1, "alice", 30, "text", "hi", <<"like">>)>>)

InitReactions == Table(<<Reaction("bob", "alice", "like", 30)>>)

IngestedMessages == {Msg(0, "bob", 60, "image", "", <<>>)}

IngestedReactions == {Reaction("alice", "bob", "poo", 60)}

Requests ==
    {Req("summary"), [Req("summary") EXCEPT !.user = "bob"]}
    \cup {[Req("add_nickname") EXCEPT !.caller = u, !.string = "nick"] : u \in UserIds}
    \cup {[Req("set_username") EXCEPT !.string = n] : n \in {"carol", "bob"}}
    \cup {Req("display_users")}

Loaded(C, R, U) ==
    /\ disk_chat = C /\ chat_df = C
    /\ disk_reactions = R /\ reactions_df = R
    /\ disk_users = U /\ users_df = U
    /\ pc = "idle"
    /\ cur = NoRequest
    /\ reloaded = {}
    /\ out = NoOut

Init ==
    /\ Loaded(InitChat, InitReactions, InitUsers)
    /\ update_required = FALSE

Next ==
    \/ \E req \in Requests : UpdateCheck(req)
    \/ UpdateChat
    \/ UpdateReactions
    \/ UpdateUsers
    \/ UpdateRemove
    \/ Summary
    \/ \E req \in Requests : AddNickname(req)
    \/ \E req \in Requests : SetUsername(req)
    \/ \E req \in Requests : DisplayUsers(req)
    \/ \E row \in IngestedMessages : IngestMessage(row)
    \/ \E row \in IngestedReactions : IngestReaction(row)
    \/ IngestUsername(2, "bobby")

Spec == Init /\ [][Next]_vars

---------------------------------------------------------------------------
(* SpecHandlers: every handler on valid and invalid arguments, over fixed  *)
(* tables and with no update signal                                        *)

HandlerChat ==
    Table(<<Msg(1, "alice", 30, "text", "hi", <<"like">>),
            Msg(2, "bob", 60, "image", "", <<"like", "poo">>),
            Msg(3, "alice", 60, "video_note", "", <<>>)>>)

HandlerReactions ==
    Table(<<Reaction("bob", "alice", "like", 30),
            Reaction("alice", "bob", "like", 60),
            Reaction("alice", "bob", "poo", 60)>>)

HandlerUsers ==
    (1 :> User("alice", Nicknames(MAX_NICKNAMES_NUM - 1)))
    @@ (2 :> User("bob", Nicknames(MAX_NICKNAMES_NUM)))

UserPeriodRequests(cmd) ==
    {[Req(cmd) EXCEPT !.user = u, !.period = p] :
        u \in {"", "bob", "zed"}, p \in {"", "36", "bad"}}

HandlerRequests ==
    UNION {UserPeriodRequests(cmd) :
             cmd \in {"summary", "messages_by_reactions", "funchart", "spamchart",
                      "likechart"}}
    \cup {[r EXCEPT !.message_type = t] :
             r \in UserPeriodRequests("media_by_reactions"), t \in {"image", "video"}}
    \cup {[Req(cmd) EXCEPT !.period = p] :
             cmd \in {"fun", "wholesome"}, p \in {"", "36", "bad"}}
    \cup {[Req("last_messages") EXCEPT !.user = u, !.number = n] :
             u \in {"bob", "zed"}, n \in {"2", "101"}}
    \cup {[Req(cmd) EXCEPT !.caller = c, !.string = t] :
             cmd \in {"add_nickname", "set_username"}, c \in UserIds,
             t \in {"nick", "x"}}
    \cup {Req("display_users")}

\* one message of bob whose listing by last_messages is exactly
\* MAX_TEXT_LENGTH characters long, and one whose listing is one longer
EssayChat(text) == Table(<<Msg(1, "bob", 60, "text", text, <<>>)>>)

InitHandlers ==
    /\ \E C \in {HandlerChat, Table(<<>>), EssayChat("essay"), EssayChat("essay!")} :
          Loaded(C, HandlerReactions, HandlerUsers)
    /\ update_required = FALSE

NextHandlers ==
    \/ \E req \in HandlerRequests : UpdateCheck(req)
    \/ Summary
    \/ MessagesByReactions
    \/ MediaByReactions
    \/ LastMessages
    \/ Fun
    \/ Wholesome
    \/ Funchart
    \/ Spamchart
    \/ Likechart
    \/ \E req \in HandlerRequests : AddNickname(req)
    \/ \E req \in HandlerRequests : SetUsername(req)
    \/ \E req \in HandlerRequests : DisplayUsers(req)

SpecHandlers == InitHandlers /\ [][NextHandlers]_vars

---------------------------------------------------------------------------
(* SpecMetric: the metric functions over every pair of small tables        *)

\* the sequences over S of at most n rows, oldest first
Logs(S, n) ==
    {s \in UNION {[1..k -> S] : k \in 0..n} :
        \A i \in DOMAIN s : i = 1 \/ s[i - 1].timestamp <= s[i].timestamp}

MetricMessages == {Msg(0, u, t, "text", "t", <<>>) : u \in Usernames, t \in Times}

\* reactions of one user to the other
MetricReactions ==
    {Reaction(p[1], p[2], "like", t) :
        p \in {q \in Usernames \X Usernames : q[1] # q[2]}, t \in Times}

Numbered(s) == [i \in DOMAIN s |-> [s[i] EXCEPT !.message_id = i]]

Repeat(row, n) == [i \in 1..n |-> row]

\* 10 messages of alice and 5 of bob, 8 reactions to alice and 1 to bob
ExampleChat ==
    Table(Numbered(Repeat(Msg(0, "alice", 60, "text", "t", <<>>), 10)
                   \o Repeat(Msg(0, "bob", 60, "text", "t", <<>>), 5)))

ExampleReactions ==
    Table(Repeat(Reaction("bob", "alice", "like", 60), 8)
          \o <<Reaction("alice", "bob", "like", 60)>>)

\* alice: 2 messages, 1 reaction received, 2 given; bob: 1, 2, 1
SkewedChat ==
    Table(Numbered(<<Msg(0, "alice", 30, "text", "t", <<>>),
                     Msg(0, "alice", 60, "text", "t", <<>>),
                     Msg(0, "bob", 60, "text", "t", <<>>)>>))

SkewedReactions ==
    Table(<<Reaction("alice", "bob", "like", 30),
            Reaction("alice", "bob", "like", 60),
            Reaction("bob", "alice", "like", 60)>>)

MetricUsers == (1 :> User("alice", <<>>)) @@ (2 :> User("bob", <<>>))

MetricRequests ==
    {[Req(cmd) EXCEPT !.user = u, !.period = "36"] :
        cmd \in {"summary", "funchart"}, u \in {"", "bob"}}
    \cup {[Req("summary") EXCEPT !.user = u, !.shift_total = t] :
             u \in {"", "bob"}, t \in {"none", "all"}}
    \cup {[Req("funchart") EXCEPT !.user = u] : u \in {"", "bob"}}
    \cup {[Req(cmd) EXCEPT !.period = p] :
             cmd \in {"fun", "wholesome"}, p \in {"", "36"}}

InitMetric ==
    /\ \/ \E C \in Logs(MetricMessages, MaxMsgs), R \in Logs(MetricReactions, MaxReactions) :
             Loaded(Table(Numbered(C)), Table(R), MetricUsers)
       \/ Loaded(ExampleChat, ExampleReactions, MetricUsers)
       \/ Loaded(SkewedChat, SkewedReactions, MetricUsers)
    /\ update_required = FALSE

NextMetric ==
    \/ \E req \in MetricRequests : UpdateCheck(req)
    \/ Summary
    \/ Fun
    \/ Wholesome
    \/ Funchart

SpecMetric == InitMetric /\ [][NextMetric]_vars

---------------------------------------------------------------------------
(* Properties *)

SendOps ==
    {"send_error", "send_reply", "send_media", "send_limit_error",
     "send_invalid_username"}

\* filtering, sorting, aggregation and reads of the shared tables
ComputeOps ==
    {"filter_by_time", "filter_by_shifted_time", "filter_emojis", "filter_emoji",
     "filter_rows", "sort", "aggregate", "plot", "read_users"}

LastOp(ops) == ops[Len(ops)]

\* C1: a statistics handler whose request carries an error does nothing but
\* resolve the arguments and send the error text: no time-window or
\* shifted-window filtering, no aggregation, no result reply.
C1_ErrorIsTerminal ==
    (out.cmd \in StatsCommands /\ out.args.error # "")
        => Range(out.ops) \subseteq {"parse_args", "send_error"}

\* C2: add_nickname for a user who holds MAX_NICKNAMES_NUM nicknames ends
\* with the message naming the limit, saves nothing and leaves the users
\* table in memory and on disk as they were.
C2_NicknameLimit ==
    [][\A req \in Requests :
          (AddNickname(req)
           /\ Len(users_df[req.caller].nicknames) = MAX_NICKNAMES_NUM)
          => /\ users_df' = users_df
             /\ disk_users' = disk_users
             /\ LastOp(out'.ops) = "send_limit_error"
             /\ "save_df" \notin Range(out'.ops)]_vars

C2_Witness ==
    /\ out.cmd = "add_nickname"
    /\ LastOp(out.ops) = "send_limit_error"
    /\ Len(users_df[out.caller].nicknames) = MAX_NICKNAMES_NUM
    /\ users_df = disk_users

\* C3: a handler that starts while the update signal is pending applies
\* it before it reads the users table: a statistics handler enters the
\* reload, and add_nickname, set_username and display_users read the users
\* table as persisted and, when they save, leave the persisted rows of the
\* other users as they were.
C3_PendingUpdateAppliedFirst ==
    [][\A req \in Requests :
          /\ (update_required /\ UpdateCheck(req)) => pc' = "upd_chat"
          /\ (update_required
               /\ (AddNickname(req) \/ SetUsername(req) \/ DisplayUsers(req)))
              => /\ users_df = disk_users
                 /\ \A u \in UserIds \ {req.caller} : disk_users'[u] = disk_users[u]]_vars

AllTables == {"chat", "reactions", "users"}

\* C4: update() with the flag absent changes no table and removes nothing;
\* with the flag present it replaces each table by what storage holds when
\* it is read, clears the flag only after the three reloads, and returns
\* with the flag absent.
C4_Update ==
    [][/\ (pc = "idle" /\ pc' # "idle" /\ ~update_required)
          => /\ pc' = "body"
             /\ UNCHANGED <<chat_df, reactions_df, users_df, update_required>>
       /\ (pc = "idle" /\ pc' # "idle" /\ update_required) => pc' = "upd_chat"
       /\ ("chat" \in reloaded' \ reloaded) => chat_df' = disk_chat
       /\ ("reactions" \in reloaded' \ reloaded) => reactions_df' = disk_reactions
       /\ ("users" \in reloaded' \ reloaded) => users_df' = disk_users
       /\ (update_required /\ ~update_required')
          => (reloaded = AllTables /\ pc' = "body")
       /\ (pc \in {"upd_chat", "upd_reactions", "upd_users", "upd_remove"}
           /\ pc' = "body")
          => (~update_required' /\ reloaded' = AllTables)]_vars

C4_Witness ==
    /\ pc = "body"
    /\ reloaded = AllTables
    /\ ~update_required
    /\ Len(chat_df.rows) > Len(InitChat.rows)
    /\ users_df # InitUsers

\* C5: in a handler whose request resolves without error, no filtering,
\* sorting, aggregation or read of the shared tables follows a send, and
\* the handler ends with a send.
C5_ComputeBeforeSend ==
    (out.cmd # "none" /\ out.args.error = "")
        => /\ \A i, j \in DOMAIN out.ops :
                 (i < j /\ out.ops[i] \in SendOps) => out.ops[j] \notin ComputeOps
           /\ LastOp(out.ops) \in SendOps

\* C6: with no update signal, the shared chat and reactions tables keep the
\* rows and the columns they were loaded with, whatever commands ran.
C6_SharedTablesUntouched ==
    ~update_required => (chat_df = disk_chat /\ reactions_df = disk_reactions)

---------------------------------------------------------------------------
(* Properties of the metric functions, over the tables in memory *)

\* the messages the request covers: in the window, and of the named user
Covered(r, args) ==
    /\ InWindow(r.timestamp, args)
    /\ args.user = None \/ r.final_username = args.user

MessagesOf(n, args) ==
    Cardinality({i \in DOMAIN chat_df.rows :
                    Covered(chat_df.rows[i], args) /\ chat_df.rows[i].final_username = n})

ReceivedBy(n, args) ==
    Cardinality({i \in DOMAIN reactions_df.rows :
                    /\ InWindow(reactions_df.rows[i].timestamp, args)
                    /\ reactions_df.rows[i].reacted_to_username = n})

GivenBy(n, args) ==
    Cardinality({i \in DOMAIN reactions_df.rows :
                    /\ InWindow(reactions_df.rows[i].timestamp, args)
                    /\ reactions_df.rows[i].reacting_username = n})

\* v is num / den in units of 1 / scale, rounded to the nearest
IsRounded(v, num, den, scale) == 2 * Abs(v * den - scale * num) <= den

IsRatio(ratio, num, den) == ratio.kind = "num" /\ IsRounded(ratio.v, num, den, 100)

\* ratio a is above ratio b: inf above every number, NaN below
RatioAbove(a, b) ==
    \/ a.kind = "inf" /\ b.kind # "inf"
    \/ a.kind = "num" /\ b.kind = "nan"
    \/ a.kind = "num" /\ b.kind = "num" /\ a.v > b.v

Descending(t) ==
    \A i, j \in DOMAIN t : i < j => ~RatioAbove(t[j].ratio, t[i].ratio)

Ascending(t) ==
    \A i, j \in DOMAIN t : i < j => ~RatioAbove(t[i].ratio, t[j].ratio)

Answered == pc = "idle" /\ out.cmd # "none" /\ out.args.error = ""

\* C7: every row that reaches a ratio step has a denominator of at least
\* 1, every ratio is a number, and the fun-metric table has no entry for a
\* username without a message among those the request covers.
C7_NoZeroDenominator ==
    Answered =>
        /\ \A i \in DOMAIN out.reply.fun_rows :
              out.reply.fun_rows[i].message_count >= 1
        /\ \A i \in DOMAIN out.reply.wholesome_rows :
              out.reply.wholesome_rows[i].reactions_received_count >= 1
        /\ \A i \in DOMAIN out.reply.periodized_rows :
              out.reply.periodized_rows[i].message_count >= 1
        /\ \A i \in DOMAIN out.reply.fun_metric :
              /\ out.reply.fun_metric[i].ratio.kind = "num"
              /\ MessagesOf(out.reply.fun_metric[i].final_username, out.args) >= 1
        /\ \A i \in DOMAIN out.reply.wholesome_metric :
              out.reply.wholesome_metric[i].ratio.kind = "num"
        /\ \A i \in DOMAIN out.reply.periodized :
              out.reply.periodized[i].ratio.kind = "num"

\* reactions are recorded against a username that has no message covered
C7_Witness ==
    /\ Answered
    /\ out.cmd \in {"fun", "summary"}
    /\ out.reply.fun_metric # <<>>
    /\ \E n \in Usernames : ReceivedBy(n, out.args) >= 1 /\ MessagesOf(n, out.args) = 0

FunEntries(n) ==
    {i \in DOMAIN out.reply.fun_metric : out.reply.fun_metric[i].final_username = n}

FunAnswered == Answered /\ out.cmd \in {"fun", "summary"}

\* C8: every username with a message covered has exactly one fun-metric
\* entry, with the ratio reactions received / messages sent rounded to 2
\* decimals, and the table is in descending ratio order.
C8_EntryPerAuthor ==
    FunAnswered =>
        /\ \A n \in Usernames :
              MessagesOf(n, out.args) >= 1
              => /\ Cardinality(FunEntries(n)) = 1
                 /\ \A i \in FunEntries(n) :
                       IsRatio(out.reply.fun_metric[i].ratio,
                               ReceivedBy(n, out.args), MessagesOf(n, out.args))
        /\ Descending(out.reply.fun_metric)

\* What calculate_fun_metric yields: an entry for the usernames with a
\* message covered and a reaction received in the window, with the ratio
\* reactions received / messages sent rounded to 2 decimals, and for no
\* other username; descending ratio order; 10 messages and 8 reactions for
\* alice, 5 and 1 for bob give [alice: 0.8, bob: 0.2].
FunMetricOfReactedAuthors ==
    FunAnswered =>
        /\ \A n \in Usernames :
              IF MessagesOf(n, out.args) >= 1 /\ ReceivedBy(n, out.args) >= 1
              THEN /\ Cardinality(FunEntries(n)) = 1
                   /\ \A i \in FunEntries(n) :
                         IsRatio(out.reply.fun_metric[i].ratio,
                                 ReceivedBy(n, out.args), MessagesOf(n, out.args))
              ELSE FunEntries(n) = {}
        /\ Descending(out.reply.fun_metric)
        /\ (chat_df = ExampleChat /\ reactions_df = ExampleReactions
            /\ out.args.user = None)
           => out.reply.fun_metric =
                <<[final_username |-> "alice", ratio |-> [kind |-> "num", v |-> 80]],
                  [final_username |-> "bob", ratio |-> [kind |-> "num", v |-> 20]]>>

WholesomeEntries(n) ==
    {i \in DOMAIN out.reply.wholesome_metric :
        out.reply.wholesome_metric[i].reacting_username = n}

WholesomeAnswered == Answered /\ out.cmd \in {"wholesome", "summary"}

\* C9: every username with a reaction received in the window has exactly
\* one wholesome-metric entry, with the ratio given / received rounded to 2
\* decimals; the others have none; the table is descending and the
\* unwholesome view is the same rows ascending.
C9_EntryPerReceiver ==
    WholesomeAnswered =>
        /\ \A n \in Usernames :
              IF ReceivedBy(n, out.args) >= 1
              THEN /\ Cardinality(WholesomeEntries(n)) = 1
                   /\ \A i \in WholesomeEntries(n) :
                         IsRatio(out.reply.wholesome_metric[i].ratio,
                                 GivenBy(n, out.args), ReceivedBy(n, out.args))
              ELSE WholesomeEntries(n) = {}
        /\ Descending(out.reply.wholesome_metric)
        /\ out.cmd = "summary"
           => /\ Range(out.reply.unwholesome) = Range(out.reply.wholesome_metric)
              /\ Len(out.reply.unwholesome) = Len(out.reply.wholesome_metric)
              /\ Ascending(out.reply.unwholesome)

\* What calculate_wholesome_metric yields: an entry for the usernames with
\* a reaction received and a reaction given in the window, with the ratio
\* given / received rounded to 2 decimals, and for no other username;
\* descending, and the unwholesome view is the same rows ascending.
WholesomeMetricOfGivers ==
    WholesomeAnswered =>
        /\ \A n \in Usernames :
              IF ReceivedBy(n, out.args) >= 1 /\ GivenBy(n, out.args) >= 1
              THEN /\ Cardinality(WholesomeEntries(n)) = 1
                   /\ \A i \in WholesomeEntries(n) :
                         IsRatio(out.reply.wholesome_metric[i].ratio,
                                 GivenBy(n, out.args), ReceivedBy(n, out.args))
              ELSE WholesomeEntries(n) = {}
        /\ Descending(out.reply.wholesome_metric)
        /\ out.cmd = "summary"
           => /\ Range(out.reply.unwholesome) = Range(out.reply.wholesome_metric)
              /\ Len(out.reply.unwholesome) = Len(out.reply.wholesome_metric)
              /\ Ascending(out.reply.unwholesome)

ShiftedMessages ==
    Cardinality({i \in DOMAIN chat_df.rows :
        InShiftedWindow(chat_df.rows[i].timestamp, out.args, out.req.shift_total)})

ShiftedReactions ==
    Cardinality({i \in DOMAIN reactions_df.rows :
        InShiftedWindow(reactions_df.rows[i].timestamp, out.args, out.req.shift_total)})

CoveredMessages ==
    Cardinality({i \in DOMAIN chat_df.rows : Covered(chat_df.rows[i], out.args)})

WindowReactions ==
    Cardinality({i \in DOMAIN reactions_df.rows :
        InWindow(reactions_df.rows[i].timestamp, out.args)})

\* the change reported for a count against its baseline
IsChange(text, current, baseline) ==
    /\ baseline = 0 => (text.value = 0 /\ ~text.plus)
    /\ baseline > 0 =>
          /\ IsRounded(text.value, current - baseline, baseline, 1000)
          /\ text.plus <=> text.value > 0

---------------------------------------------------------------------------
(* Properties of the rankings *)

Min(S) == CHOOSE x \in S : \A y \in S : x <= y

\* the timestamp of the first message of n among those the request covers
EarliestMessage(n, args) ==
    Min({chat_df.rows[i].timestamp : i \in {k \in DOMAIN chat_df.rows :
            Covered(chat_df.rows[k], args) /\ chat_df.rows[k].final_username = n}})

\* the timestamp of the first reaction in the window that n received
EarliestReceived(n, args) ==
    Min({reactions_df.rows[i].timestamp : i \in {k \in DOMAIN reactions_df.rows :
            /\ InWindow(reactions_df.rows[k].timestamp, args)
            /\ reactions_df.rows[k].reacted_to_username = n}})

\* the timestamp of the first reaction in the window that n gave
EarliestGiven(n, args) ==
    Min({reactions_df.rows[i].timestamp : i \in {k \in DOMAIN reactions_df.rows :
            /\ InWindow(reactions_df.rows[k].timestamp, args)
            /\ reactions_df.rows[k].reacting_username = n}})

\* row a may stand before row b: a higher score, or the same score and a
\* timestamp that is not later
MayPrecede(score_a, time_a, score_b, time_b) ==
    \/ score_a > score_b
    \/ score_a = score_b /\ time_a <= time_b

\* a listing of messages is ranked by its number of reactions
ListingRanked(t) ==
    \A i, j \in DOMAIN t :
        i < j => MayPrecede(Len(t[i].reaction_emojis), t[i].timestamp,
                            Len(t[j].reaction_emojis), t[j].timestamp)

\* C11: every ranked listing is in descending score order and rows of
\* equal score stand earliest timestamp first: the listings of
\* messages_by_reactions and media_by_reactions, the top message of summary
\* (no covered message with text ranks before it), and the count and ratio
\* rankings of summary, where the timestamp of a username is that of its
\* first message (top spammer, fun meter), of the first reaction it
\* received (most liked) or of the first reaction it gave (most liking,
\* wholesome meter).
C11_RankedEarliestFirst ==
    Answered =>
        /\ out.cmd \in {"messages_by_reactions", "media_by_reactions"}
           => ListingRanked(out.reply.listing)
        /\ out.cmd = "summary" =>
             /\ \A i \in DOMAIN out.reply.listing, k \in DOMAIN chat_df.rows :
                   (Covered(chat_df.rows[k], out.args) /\ chat_df.rows[k].text # "")
                   => MayPrecede(Len(out.reply.listing[i].reaction_emojis),
                                 out.reply.listing[i].timestamp,
                                 Len(chat_df.rows[k].reaction_emojis),
                                 chat_df.rows[k].timestamp)
             /\ \A i, j \in DOMAIN out.reply.message_counts :
                   i < j => MayPrecede(
                       out.reply.message_counts[i].count,
                       EarliestMessage(out.reply.message_counts[i].key, out.args),
                       out.reply.message_counts[j].count,
                       EarliestMessage(out.reply.message_counts[j].key, out.args))
             /\ \A i, j \in DOMAIN out.reply.reactions_received_counts :
                   i < j => MayPrecede(
                       out.reply.reactions_received_counts[i].count,
                       EarliestReceived(out.reply.reactions_received_counts[i].key, out.args),
                       out.reply.reactions_received_counts[j].count,
                       EarliestReceived(out.reply.reactions_received_counts[j].key, out.args))
             /\ \A i, j \in DOMAIN out.reply.reactions_given_counts :
                   i < j => MayPrecede(
                       out.reply.reactions_given_counts[i].count,
                       EarliestGiven(out.reply.reactions_given_counts[i].key, out.args),
                       out.reply.reactions_given_counts[j].count,
                       EarliestGiven(out.reply.reactions_given_counts[j].key, out.args))
             /\ \A i, j \in DOMAIN out.reply.fun_metric :
                   i < j => MayPrecede(
                       out.reply.fun_metric[i].ratio.v,
                       EarliestMessage(out.reply.fun_metric[i].final_username, out.args),
                       out.reply.fun_metric[j].ratio.v,
                       EarliestMessage(out.reply.fun_metric[j].final_username, out.args))
             /\ \A i, j \in DOMAIN out.reply.wholesome_metric :
                   i < j => MayPrecede(
                       out.reply.wholesome_metric[i].ratio.v,
                       EarliestGiven(out.reply.wholesome_metric[i].reacting_username, out.args),
                       out.reply.wholesome_metric[j].ratio.v,
                       EarliestGiven(out.reply.wholesome_metric[j].reacting_username, out.args))


---------------------------------------------------------------------------
(* Properties of the text of last_messages *)

\* C12: the text last_messages sends is never longer than 4096
\* characters: a listing of the requested messages that is longer is
\* replaced as a whole by the one message "Too much text to display. Lower
\* the number of messages.", and a listing of at most 4096 characters is
\* sent as it is.
C12_TextWithinLimit ==
    (pc = "idle" /\ out.cmd = "last_messages") =>
        LET length == listing_text_length(out.args, out.reply.listing)
        IN  /\ out.reply.text.len <= MAX_TEXT_LENGTH
            /\ length > MAX_TEXT_LENGTH
               => out.reply.text = [kind |-> "too_much", len |-> TOO_MUCH_TEXT_LENGTH]
            /\ length <= MAX_TEXT_LENGTH
               => out.reply.text = [kind |-> "listing", len |-> length]

\* a listing of one character more than the limit has been replaced
C12_Witness ==
    /\ pc = "idle"
    /\ out.cmd = "last_messages"
    /\ out.args.error = ""
    /\ listing_text_length(out.args, out.reply.listing) = MAX_TEXT_LENGTH + 1
    /\ out.reply.text.kind = "too_much"

\* a listing of exactly 4096 characters has been sent as it is
ListingAtLimitSent ==
    /\ pc = "idle"
    /\ out.cmd = "last_messages"
    /\ out.args.error = ""
    /\ out.reply.text = [kind |-> "listing", len |-> MAX_TEXT_LENGTH]


---------------------------------------------------------------------------
(* Properties of the users table under unresolved arguments *)

\* C13: add_nickname and set_username whose free-text argument fails
\* resolution send the error text and leave the users table in memory and
\* on disk as they were: nothing is appended, nothing replaced, nothing
\* saved.
C13_UnresolvedTextChangesNothing ==
    [][\A req \in HandlerRequests :
          ((AddNickname(req) \/ SetUsername(req))
           /\ parse_args(users_df, req).error # "")
          => /\ users_df' = users_df
             /\ disk_users' = disk_users
             /\ "send_error" \in Range(out'.ops)
             /\ "save_df" \notin Range(out'.ops)]_vars


---------------------------------------------------------------------------
(* Properties of the update signal under ingestion *)

\* C14: no update signal is lost.  Whenever a command has passed update()
\* without a reload, because it found the flag absent, and nothing was
\* ingested since, the chat, reactions and users tables in memory equal the
\* persisted ones: the flag is never cleared for data that was not loaded,
\* also when the data was written while an earlier update() stood between
\* its reads and the removal of the flag.
C14_NoSignalLost ==
    (pc = "body" /\ reloaded = {} /\ ~update_required)
        => /\ chat_df = disk_chat
           /\ reactions_df = disk_reactions
           /\ users_df = disk_users


---------------------------------------------------------------------------
(* Properties of the summary of one user *)

\* the messages of the named user in the window just before the requested
\* one
ShiftedMessagesOfUser ==
    Cardinality({i \in DOMAIN chat_df.rows :
        /\ InShiftedWindow(chat_df.rows[i].timestamp, out.args, out.req.shift_total)
        /\ chat_df.rows[i].final_username = out.args.user})

\* the reactions of the requested window that the named user gave or
\* received
WindowReactionsOfUser ==
    Cardinality({i \in DOMAIN reactions_df.rows :
        /\ InWindow(reactions_df.rows[i].timestamp, out.args)
        /\ \/ reactions_df.rows[i].reacted_to_username = out.args.user
           \/ reactions_df.rows[i].reacting_username = out.args.user})

\* C15: a summary that names a user compares like with like.  The message
\* total is that user's messages in the requested window, its baseline is
\* that user's messages in the shifted window and the change is reported
\* against that baseline; the message ranking names that user only, and
\* the reaction total counts no reaction the user neither gave nor
\* received.
C15_SameUserScope ==
    (Answered /\ out.cmd = "summary" /\ out.args.user # None) =>
        /\ out.reply.messages = CoveredMessages
        /\ out.reply.shifted_messages = ShiftedMessagesOfUser
        /\ IsChange(out.reply.message_count_change_text,
                    CoveredMessages, ShiftedMessagesOfUser)
        /\ \A i \in DOMAIN out.reply.message_counts :
               out.reply.message_counts[i].key = out.args.user
        /\ out.reply.reactions <= WindowReactionsOfUser

====
